---- MODULE Spec2Model ----
(***************************************************************************)
(* Model of the ZIHDAWG8 driver (src/ZIHDAWG8.py): the parameter binder    *)
(* (create_parameters_from_node_tree, _getter, _setter), upload_waveform   *)
(* and the polling state machine of upload_sequence_program.               *)
(*                                                                         *)
(* The vendor session (self.daq, self.awg_module) is the environment: its  *)
(* answers are device state that an environment action may change between  *)
(* any two driver steps, and every session call may raise.                 *)
(* Progress fractions are kept in tenths (0.4 is 4, 1.0 is 10).            *)
(***************************************************************************)
EXTENDS Integers, Sequences, FiniteSets, TLC

\* ------------------------------------------------------------- bounds
\* status reads kept in the history statusReads
MaxStatusReads == 5
\* progress reads kept in the history progressReads
MaxProgressReads == 2
\* the integers a caller sets are 0 .. MaxValue
MaxValue == 1

\* ------------------------------------------- upload_sequence_program
VARIABLES
  pc,             \* position of upload_sequence_program
  moduleSets,     \* the awg_module.set calls issued (lines 137-138)
  devStatus,      \* the device's awgModule/compiler/status
  devProgress,    \* the device's awgModule/progress, in tenths
  devRegressed,   \* history: the status changed after it had left in-progress
  statusReads,    \* history: values returned by getInt(compiler/status)
  progressReads,  \* history: values returned by getDouble(progress)
  statusSleeps,   \* history: time.sleep calls of the status loop (line 140)
  progressSleeps, \* history: time.sleep calls of the progress loop (line 145)
  truncated,      \* history: a read or sleep was not recorded (bound reached)
  sessionFailed,  \* history: an awg_module call raised
  stringReads,    \* history: values returned by getString(compiler/statusstring)
  ret,            \* <<v>> once v was returned, <<>> before
  err             \* the message of the exception raised, "none" before

uspVars == <<pc, moduleSets, devStatus, devProgress, stringReads,
             devRegressed, statusReads, progressReads, statusSleeps,
             progressSleeps, truncated, sessionFailed, ret, err>>

\* the parameter binder, the bound parameters and upload_waveform
VARIABLES
  phase,       \* "init" in __init__ before line 39, "ready" after it
  nodeTree,    \* the device node tree of download_device_node_tree
  parameters,  \* self.parameters: name -> [get_cmd, set_cmd, vals]
  uwPc,        \* position of upload_waveform: "idle", "sync" or "set_data"
  op,          \* the operation called last: [fn, name, value]
  calls,       \* history: the self.daq calls that operation has issued
  steps,       \* history: the statements of upload_waveform run, and how each ended
  result,      \* <<v>> once that operation returned v, <<>> for None
  raised       \* the exception that operation raised, "none" if none

paramVars ==
  <<phase, nodeTree, parameters, uwPc, op, calls, steps, result, raised>>

vars == <<uspVars, paramVars>>

\* the compiler status sentinel of line 139
InProgress == -1
\* the compiler status tested at line 142
Failure == 1
\* the progress bound 1.0 of line 144, in tenths
Complete == 10

\* values the device may answer for awgModule/compiler/status
StatusCodes == {-1, 0, 1, 2}
\* values the device may answer for awgModule/progress, in tenths
ProgressValues == {0, 4, 10}
\* values the device may answer for awgModule/compiler/statusstring
StatusStrings == {"syntax error", "unknown wave"}
\* awg_number arguments offered to the operations
AwgNumbers == {0, 1}
SequencePrograms == {"while(true){playWave(\"w\");}"}

\* a history with one more entry, kept to its bound
Record(hist, v, max) == IF Len(hist) < max THEN Append(hist, v) ELSE hist
Count(n, max) == IF n < max THEN n + 1 ELSE n
Lost(hist, max) == Len(hist) >= max

\* line 139 waiting for success instead of for the end of the compilation
StillCompiling_until_success(status) == status # 0
\* line 139: the condition of the compile-wait loop
StillCompiling(status) == status = InProgress
\* line 142 testing for the vendor's warning code instead
CompileFailed_on_two(status) == status = 2
\* line 142: the failure test
CompileFailed(status) == status = Failure
\* line 144 with <= for <
StillUploading_inclusive(progress) == progress <= Complete
\* line 144: the condition of the progress loop
StillUploading(progress) == progress < Complete
\* line 143 raising a message of the driver's own
FailureMessage_fixed(statusstring) == "compilation failed"
\* line 143: the message of the exception raised
FailureMessage(statusstring) == statusstring
\* line 147: the value returned
ReturnValue(status) == status

UspInit ==
  /\ pc = "idle"
  /\ moduleSets = <<>>
  /\ devStatus \in StatusCodes
  /\ devProgress \in ProgressValues
  /\ stringReads = <<>>
  /\ devRegressed = FALSE
  /\ statusReads = <<>>
  /\ progressReads = <<>>
  /\ statusSleeps = 0
  /\ progressSleeps = 0
  /\ truncated = FALSE
  /\ sessionFailed = FALSE
  /\ ret = <<>>
  /\ err = "none"

\* lines 137-138: select the AWG and hand the source to the compiler; the
\* first or the second awg_module.set may raise (a session error)
upload_sequence_program_set(awg_number, sequence_program) ==
  /\ pc = "idle"
  /\ \E raising \in 0 .. 2 :
       /\ moduleSets' =
            IF raising = 1
            THEN <<[node |-> "awgModule/index", value |-> <<awg_number>>]>>
            ELSE <<[node |-> "awgModule/index", value |-> <<awg_number>>],
                   [node |-> "awgModule/compiler/sourcestring",
                    value |-> <<sequence_program>>]>>
       /\ pc' = IF raising = 0 THEN "wait_compile" ELSE "raised"
       /\ sessionFailed' = (raising # 0)
       /\ err' = IF raising = 0 THEN err ELSE "session error"
  /\ UNCHANGED <<devStatus, devProgress, stringReads, devRegressed,
                 statusReads, progressReads, statusSleeps, progressSleeps,
                 truncated, ret>>
  /\ UNCHANGED paramVars

\* lines 139-140: one evaluation of the loop condition, and the sleep
upload_sequence_program_wait_compile ==
  /\ pc = "wait_compile"
  /\ statusReads' = Record(statusReads, devStatus, MaxStatusReads)
  /\ IF StillCompiling(devStatus)
     THEN /\ statusSleeps' = Count(statusSleeps, MaxStatusReads)
          /\ pc' = "wait_compile"
     ELSE /\ statusSleeps' = statusSleeps
          /\ pc' = "check_status"
  /\ truncated' = (truncated \/ Lost(statusReads, MaxStatusReads))
  /\ UNCHANGED <<moduleSets, devStatus, devProgress, stringReads,
                 devRegressed, progressReads, progressSleeps, sessionFailed,
                 ret, err>>
  /\ UNCHANGED paramVars

\* lines 142-143: a second read of the status; failure raises with the
\* status string read then, unless that read raises itself
upload_sequence_program_check ==
  /\ pc = "check_status"
  /\ statusReads' = Record(statusReads, devStatus, MaxStatusReads)
  /\ truncated' = (truncated \/ Lost(statusReads, MaxStatusReads))
  /\ IF CompileFailed(devStatus)
     THEN /\ \/ \E statusstring \in StatusStrings :
                  /\ stringReads' = <<statusstring>>
                  /\ err' = FailureMessage(statusstring)
                  /\ sessionFailed' = sessionFailed
             \/ /\ stringReads' = stringReads
                /\ err' = "session error"
                /\ sessionFailed' = TRUE
          /\ pc' = "raised"
     ELSE /\ UNCHANGED <<stringReads, err, sessionFailed>>
          /\ pc' = "wait_progress"
  /\ UNCHANGED <<moduleSets, devStatus, devProgress,
                 devRegressed, progressReads, statusSleeps, progressSleeps,
                 ret>>
  /\ UNCHANGED paramVars

\* lines 144-145: one evaluation of the loop condition, and the sleep
upload_sequence_program_wait_progress ==
  /\ pc = "wait_progress"
  /\ progressReads' = Record(progressReads, devProgress, MaxProgressReads)
  /\ IF StillUploading(devProgress)
     THEN /\ progressSleeps' = Count(progressSleeps, MaxProgressReads)
          /\ pc' = "wait_progress"
     ELSE /\ progressSleeps' = progressSleeps
          /\ pc' = "return_status"
  /\ truncated' = (truncated \/ Lost(progressReads, MaxProgressReads))
  /\ UNCHANGED <<moduleSets, devStatus, devProgress, stringReads,
                 devRegressed, statusReads, statusSleeps, sessionFailed,
                 ret, err>>
  /\ UNCHANGED paramVars

\* line 147: a third read of the status, returned
upload_sequence_program_return ==
  /\ pc = "return_status"
  /\ statusReads' = Record(statusReads, devStatus, MaxStatusReads)
  /\ truncated' = (truncated \/ Lost(statusReads, MaxStatusReads))
  /\ ret' = <<ReturnValue(devStatus)>>
  /\ pc' = "returned"
  /\ UNCHANGED <<moduleSets, devStatus, devProgress, stringReads,
                 devRegressed, progressReads, statusSleeps, progressSleeps,
                 sessionFailed, err>>
  /\ UNCHANGED paramVars

\* lines 139-147: the read the operation is about to make raises (a session
\* error), which ends the operation
upload_sequence_program_session_error ==
  /\ pc \in {"wait_compile", "check_status", "wait_progress", "return_status"}
  /\ sessionFailed' = TRUE
  /\ err' = "session error"
  /\ pc' = "raised"
  /\ UNCHANGED <<moduleSets, devStatus, devProgress, stringReads,
                 devRegressed, statusReads, progressReads, statusSleeps,
                 progressSleeps, truncated, ret>>
  /\ UNCHANGED paramVars

\* the device: the compiler status and the progress change while the
\* operation is watching them
device_change ==
  /\ pc \notin {"returned", "raised"}
  /\ \E s \in StatusCodes, p \in ProgressValues :
       /\ <<s, p>> # <<devStatus, devProgress>>
       /\ devStatus' = s
       /\ devProgress' = p
       /\ devRegressed' = (devRegressed \/ (devStatus # InProgress /\ s # devStatus))
  /\ UNCHANGED <<pc, moduleSets, stringReads, statusReads, progressReads,
                 statusSleeps, progressSleeps, truncated, sessionFailed,
                 ret, err>>
  /\ UNCHANGED paramVars


\* ------------------------------------------------- parameter binder
\* the declared types _setter and _getter know (lines 222-228, 232-238)
RecognizedTypes ==
  {"Integer (64 bit)", "Integer (enumerated)", "Double", "String", "ZIVectorData"}
\* the declared types a node tree may hold
NodeTypes == RecognizedTypes \cup {"ZIDemodSample"}
\* 'Properties' of a node, as its comma-separated words
PropertySets ==
  {<<"Read">>, <<"Write">>, <<"Read", "Write", "Setting">>, <<"Setting">>}
\* the keys of 'Options' of an enumerated node, each a string of digits
OptionKeySets == {{<<"0">>, <<"1">>}, {<<"0">>, <<"1", "0">>}}
\* 'Node' of the two nodes upload_waveform addresses, split at '/'
IndexNode == <<"", "DEV8001", "AWGS", "0", "WAVEFORM", "INDEX">>
DataNode == <<"", "DEV8001", "AWGS", "0", "WAVEFORM", "DATA">>
Nodes == {IndexNode, DataNode}

\* the values a caller hands to set, and a device answers to a read
IntValue(n) == <<"int", n>>
Waveform == <<"vector", 0>>
SetValues == {IntValue(n) : n \in (0 .. MaxValue) \cup {10}} \cup {Waveform}
Replies == {IntValue(0), IntValue(1)}
None == <<>>

Range(seq) == {seq[i] : i \in DOMAIN seq}

\* str.lower() on the path segments of the node tree
Lower(s) ==
  CASE s = "DEV8001" -> "dev8001"
    [] s = "AWGS" -> "awgs"
    [] s = "WAVEFORM" -> "waveform"
    [] s = "INDEX" -> "index"
    [] s = "DATA" -> "data"
    [] OTHER -> s

\* '_'.join(values)
RECURSIVE Join(_)
Join(values) ==
  IF values = <<>> THEN ""
  ELSE IF Len(values) = 1 THEN values[1]
  ELSE values[1] \o "_" \o Join(Tail(values))

\* lines 200-202: values = node.split('/'); '_'.join(values[2:]).lower()
generate_parameter_name(node) ==
  Join([i \in 1 .. (Len(node) - 2) |-> Lower(node[i + 2])])

DigitValue(c) ==
  CASE c = "0" -> 0 [] c = "1" -> 1 [] c = "2" -> 2 [] c = "3" -> 3
    [] c = "4" -> 4 [] c = "5" -> 5 [] c = "6" -> 6 [] c = "7" -> 7
    [] c = "8" -> 8 [] c = "9" -> 9
DigitString(d) == <<"0", "1", "2", "3", "4", "5", "6", "7", "8", "9">>[d + 1]

\* int(val) of line 188, on a string of digits
RECURSIVE ParseInt(_)
ParseInt(val) ==
  IF Len(val) = 1 THEN DigitValue(val[1])
  ELSE 10 * ParseInt(SubSeq(val, 1, Len(val) - 1)) + DigitValue(val[Len(val)])

\* '{}'.format(n) of lines 161 and 163
RECURSIVE FormatInt(_)
FormatInt(n) ==
  IF n < 10 THEN DigitString(n) ELSE FormatInt(n \div 10) \o DigitString(n % 10)

\* 'Read' in parameter['Properties'] (lines 184-187): a substring test on
\* the string, which finds a word exactly when it is one of the node's words
\* (no property word of the vendor contains another)
HasProperty(properties, word) == \E i \in DOMAIN properties : properties[i] = word

\* lines 186-187 without the test of 'Properties'
BoundSetter_always(parameter) ==
  <<[node |-> parameter.Node, type |-> parameter.Type]>>

\* lines 184-185: the getter, partial(self._getter, Node, Type), or None
BoundGetter(parameter) ==
  IF HasProperty(parameter.Properties, "Read")
  THEN <<[node |-> parameter.Node, type |-> parameter.Type]>>
  ELSE None

\* lines 186-187: the setter, partial(self._setter, Node, Type), or None
BoundSetter(parameter) ==
  IF HasProperty(parameter.Properties, "Write")
  THEN <<[node |-> parameter.Node, type |-> parameter.Type]>>
  ELSE None

\* lines 188-189 without the validator
BoundOptions_none(parameter) == None

\* lines 188-189: validators.Enum over the integer keys of Options, or None
BoundOptions(parameter) ==
  IF parameter.Type = "Integer (enumerated)"
  THEN <<{ParseInt(val) : val \in parameter.Options}>>
  ELSE None

\* lines 183-197: the parameters added for a node tree, by name (the nodes of
\* a tree have names of their own; docstring and unit are handed on as they
\* are)
BoundParameters(tree) ==
  [name \in {generate_parameter_name(tree[k].Node) : k \in DOMAIN tree} |->
     LET parameter ==
           tree[CHOOSE k \in DOMAIN tree :
                  generate_parameter_name(tree[k].Node) = name]
     IN  [get_cmd |-> BoundGetter(parameter),
          set_cmd |-> BoundSetter(parameter),
          vals |-> BoundOptions(parameter)]]

\* lines 222-229 without the ZIVectorData branch
SetterCall_no_vector(param_type) ==
  IF param_type = "Integer (64 bit)" \/ param_type = "Integer (enumerated)"
  THEN "setInt"
  ELSE IF param_type = "Double" THEN "setDouble"
  ELSE IF param_type = "String" THEN "setString"
  ELSE "none"

\* lines 232-239 with the enumerated integers left out of the first test
GetterCall_no_enumerated(param_type) ==
  IF param_type = "Integer (64 bit)"
  THEN "getInt"
  ELSE IF param_type = "Double" THEN "getDouble"
  ELSE IF param_type = "String" THEN "getString"
  ELSE IF param_type = "ZIVectorData" THEN "vectorRead"
  ELSE "none"

\* lines 222-229: the write _setter issues for a declared type, "none" if none
SetterCall(param_type) ==
  IF param_type = "Integer (64 bit)" \/ param_type = "Integer (enumerated)"
  THEN "setInt"
  ELSE IF param_type = "Double" THEN "setDouble"
  ELSE IF param_type = "String" THEN "setString"
  ELSE IF param_type = "ZIVectorData" THEN "vectorWrite"
  ELSE "none"

\* lines 232-239: the read _getter issues for a declared type, "none" if none
GetterCall(param_type) ==
  IF param_type = "Integer (64 bit)" \/ param_type = "Integer (enumerated)"
  THEN "getInt"
  ELSE IF param_type = "Double" THEN "getDouble"
  ELSE IF param_type = "String" THEN "getString"
  ELSE IF param_type = "ZIVectorData" THEN "vectorRead"
  ELSE "none"

\* one self.daq call as the history keeps it
DaqCall(fn, path, value, reply, ok) ==
  [fn |-> fn, path |-> path, value |-> value, reply |-> reply, ok |-> ok]

\* a self.daq call returns, or raises the session's error
SessionOutcome(ok) == IF ok THEN "none" ELSE "session error"

\* lines 221-229: _setter(name, param_type, value), the session answering ok
\* or raising
setter(name, param_type, value, ok) ==
  IF SetterCall(param_type) = "none"
  THEN [calls |-> <<>>, raised |-> "none"]
  ELSE [calls |-> <<DaqCall(SetterCall(param_type), name, value, None, ok)>>,
        raised |-> SessionOutcome(ok)]

\* lines 231-239: _getter(name, param_type), the session answering reply or
\* raising
getter(name, param_type, reply, ok) ==
  IF GetterCall(param_type) = "none"
  THEN [calls |-> <<>>, result |-> None, raised |-> "none"]
  ELSE [calls |-> <<DaqCall(GetterCall(param_type), name, None, reply, ok)>>,
        result |-> IF ok THEN <<reply>> ELSE None,
        raised |-> SessionOutcome(ok)]

\* validators.Enum.validate: the value is one of the integers
Validates(vals, value) == value[1] = "int" /\ value[2] \in vals[1]

\* Parameter.set: set-disabled without a setter; the validator, then set_cmd
ParameterSet(parameter, value, ok) ==
  IF parameter.set_cmd = None
  THEN [calls |-> <<>>, raised |-> "not settable"]
  ELSE IF parameter.vals # None /\ ~Validates(parameter.vals, value)
  THEN [calls |-> <<>>, raised |-> "validation error"]
  ELSE setter(parameter.set_cmd[1].node, parameter.set_cmd[1].type, value, ok)

\* Parameter.get: get-disabled without a getter; else get_cmd
ParameterGet(parameter, reply, ok) ==
  IF parameter.get_cmd = None
  THEN [calls |-> <<>>, result |-> None, raised |-> "not gettable"]
  ELSE getter(parameter.get_cmd[1].node, parameter.get_cmd[1].type, reply, ok)

\* Instrument.set(name, value): self.parameters[name].set(value)
InstrumentSet(params, name, value, ok) ==
  IF name \notin DOMAIN params
  THEN [calls |-> <<>>, raised |-> "KeyError"]
  ELSE ParameterSet(params[name], value, ok)

\* the node trees the device may report: each node with any type, properties
\* and, when enumerated, options
NodeTrees ==
  {tree \in [Nodes -> [Node : Nodes, Type : NodeTypes, Properties : PropertySets,
                       Options : OptionKeySets \cup {{}}]] :
     \A k \in Nodes :
       /\ tree[k].Node = k
       /\ (tree[k].Options # {}) = (tree[k].Type = "Integer (enumerated)")}

\* the tree of a device whose waveform nodes are as the vendor documents them
DefaultNodeTree ==
  [k \in Nodes |->
     IF k = IndexNode
     THEN [Node |-> k, Type |-> "Integer (64 bit)",
           Properties |-> <<"Read", "Write", "Setting">>, Options |-> {}]
     ELSE [Node |-> k, Type |-> "ZIVectorData",
           Properties |-> <<"Write">>, Options |-> {}]]

NoOp == [fn |-> "none", name |-> "", value |-> None]

ParamInit ==
  /\ phase = "init"
  /\ nodeTree \in NodeTrees
  /\ parameters = <<>>
  /\ uwPc = "idle"
  /\ op = NoOp
  /\ calls = <<>>
  /\ steps = <<>>
  /\ result = None
  /\ raised = "none"

\* the driver as constructed for the default tree
ParamReady ==
  /\ phase = "ready"
  /\ nodeTree = DefaultNodeTree
  /\ parameters = BoundParameters(DefaultNodeTree)
  /\ uwPc = "idle"
  /\ op = NoOp
  /\ calls = <<>>
  /\ steps = <<>>
  /\ result = None
  /\ raised = "none"

\* lines 176-197, called at line 39
create_parameters_from_node_tree ==
  /\ phase = "init"
  /\ parameters' = BoundParameters(nodeTree)
  /\ phase' = "ready"
  /\ UNCHANGED <<nodeTree, uwPc, op, calls, steps, result, raised>>
  /\ UNCHANGED uspVars

\* a get of the bound parameter name
parameter_get(name) ==
  /\ phase = "ready" /\ uwPc = "idle"
  /\ name \in DOMAIN parameters
  /\ \E reply \in Replies, ok \in BOOLEAN :
       LET done == ParameterGet(parameters[name], reply, ok)
       IN  /\ calls' = done.calls
           /\ result' = done.result
           /\ raised' = done.raised
  /\ op' = [fn |-> "get", name |-> name, value |-> None]
  /\ steps' = <<>>
  /\ UNCHANGED <<phase, nodeTree, parameters, uwPc>>
  /\ UNCHANGED uspVars

\* a set of the bound parameter name to value
parameter_set(name, value) ==
  /\ phase = "ready" /\ uwPc = "idle"
  /\ name \in DOMAIN parameters
  /\ \E ok \in BOOLEAN :
       LET done == ParameterSet(parameters[name], value, ok)
       IN  /\ calls' = done.calls
           /\ raised' = done.raised
  /\ result' = None
  /\ op' = [fn |-> "set", name |-> name, value |-> value]
  /\ steps' = <<>>
  /\ UNCHANGED <<phase, nodeTree, parameters, uwPc>>
  /\ UNCHANGED uspVars

\* lines 161-163 with the exception swallowed
AfterStatement_swallow(exception, next) == next

\* lines 161-163: an exception leaves upload_waveform, else the next
\* statement runs
AfterStatement(exception, next) == IF exception = "none" THEN next ELSE "idle"

\* line 161: self.set('awgs_{}_waveform_index'.format(awg_number), index)
upload_waveform_set_index(awg_number, waveform, index) ==
  /\ phase = "ready" /\ uwPc = "idle"
  /\ \E ok \in BOOLEAN :
       LET done == InstrumentSet(parameters,
                     "awgs_" \o FormatInt(awg_number) \o "_waveform_index",
                     index, ok)
       IN  /\ calls' = done.calls
           /\ raised' = done.raised
           /\ steps' = <<[line |-> "set_index", raised |-> done.raised]>>
           /\ uwPc' = AfterStatement(done.raised, "sync")
  /\ result' = None
  /\ op' = [fn |-> "upload_waveform", name |-> FormatInt(awg_number),
            value |-> <<waveform, index>>]
  /\ UNCHANGED <<phase, nodeTree, parameters>>
  /\ UNCHANGED uspVars

\* line 162: self.daq.sync()
upload_waveform_sync ==
  /\ uwPc = "sync"
  /\ \E ok \in BOOLEAN :
       /\ calls' = Append(calls, DaqCall("sync", None, None, None, ok))
       /\ raised' = SessionOutcome(ok)
       /\ steps' = Append(steps, [line |-> "sync", raised |-> SessionOutcome(ok)])
       /\ uwPc' = AfterStatement(SessionOutcome(ok), "set_data")
  /\ UNCHANGED <<phase, nodeTree, parameters, op, result>>
  /\ UNCHANGED uspVars

\* line 163: self.set('awgs_{}_waveform_data'.format(awg_number), waveform)
upload_waveform_set_data ==
  /\ uwPc = "set_data"
  /\ \E ok \in BOOLEAN :
       LET done == InstrumentSet(parameters,
                     "awgs_" \o op.name \o "_waveform_data", op.value[1], ok)
       IN  /\ calls' = calls \o done.calls
           /\ raised' = done.raised
           /\ steps' = Append(steps, [line |-> "set_data", raised |-> done.raised])
  /\ uwPc' = "idle"
  /\ UNCHANGED <<phase, nodeTree, parameters, op, result>>
  /\ UNCHANGED uspVars

ParamNext ==
  \/ create_parameters_from_node_tree
  \/ \E name \in DOMAIN parameters : parameter_get(name)
  \/ \E name \in DOMAIN parameters, value \in SetValues : parameter_set(name, value)
  \/ \E awg_number \in AwgNumbers, index \in SetValues :
       upload_waveform_set_index(awg_number, Waveform, index)
  \/ upload_waveform_sync
  \/ upload_waveform_set_data

UspStep ==
  \/ upload_sequence_program_wait_compile
  \/ upload_sequence_program_check
  \/ upload_sequence_program_wait_progress
  \/ upload_sequence_program_return

Next ==
  \/ \E n \in AwgNumbers, p \in SequencePrograms : upload_sequence_program_set(n, p)
  \/ UspStep
  \/ upload_sequence_program_session_error
  \/ device_change

\* upload_sequence_program on the driver as __init__ leaves it
Init == UspInit /\ ParamReady
Spec == Init /\ [][Next]_vars

\* the interpreter keeps running the operation's own steps
FairSpec == Init /\ [][Next]_vars /\ WF_vars(UspStep)

\* the binder, the bound parameters and upload_waveform, from line 39 of
\* __init__ on, the compiler idle
UspQuiet ==
  /\ UspInit
  /\ devStatus = InProgress
  /\ devProgress = 0
ParamSpecInit == ParamInit /\ UspQuiet
ParamSpec == ParamSpecInit /\ [][ParamNext]_vars

\* ------------------------------------- claims: upload_sequence_program
Terminated == pc \in {"returned", "raised"}

\* every read and sleep is in the histories, and no session call raised
Observed == ~truncated /\ ~sessionFailed

\* the place in reads of the first status that is not in-progress, 0 if none
LoopEnd(reads) ==
  IF \E i \in DOMAIN reads : reads[i] # -1
  THEN CHOOSE i \in DOMAIN reads :
         reads[i] # -1 /\ \A j \in 1 .. (i - 1) : reads[j] = -1
  ELSE 0

\* reads are in-progress zero or more times and from then on v, at least once
SettlesAt(reads, v) ==
  /\ LoopEnd(reads) # 0
  /\ \A i \in LoopEnd(reads) .. Len(reads) : reads[i] = v

C2_ReturnsZeroOrOne ==
  /\ (pc = "returned") => (ret \in {<<0>>, <<1>>})
  /\ (Observed /\ Terminated /\ SettlesAt(statusReads, 1)) =>
       (pc = "returned" /\ ret = <<1>>)

\* the status reads begin in-progress, in-progress, success and stay at
\* success, and the progress reads are 0.4, 1.0
C3_Scenario ==
  /\ Observed
  /\ Len(statusReads) >= 3
  /\ SubSeq(statusReads, 1, 3) = <<-1, -1, 0>>
  /\ \A i \in 4 .. Len(statusReads) : statusReads[i] = 0
  /\ progressReads = <<4, 10>>

\* C3 as stated: in that scenario the operation returns 0 with exactly two
\* polling iterations on each loop, whether an iteration is a sleep or a read.
C3_TwoIterationsEach ==
  (C3_Scenario /\ pc = "returned") =>
    /\ ret = <<0>>
    /\ \/ (statusSleeps = 2 /\ progressSleeps = 2)
       \/ (LoopEnd(statusReads) = 2 /\ Len(progressReads) = 2)

\* C3 as amended: in that scenario the progress loop has ended, the status
\* loop has read three times and slept twice, the progress loop has read twice
\* and slept once, and the operation returns 0 after five status reads.
C3_TwoSleepsThenOne ==
  C3_Scenario =>
    /\ pc \in {"return_status", "returned"}
    /\ LoopEnd(statusReads) = 3
    /\ statusSleeps = 2
    /\ progressSleeps = 1
    /\ (pc = "returned") => (ret = <<0>> /\ Len(statusReads) = 5)

C3_Witness ==
  /\ C3_Scenario
  /\ pc = "returned"
  /\ ret = <<0>>
  /\ statusReads = <<-1, -1, 0, 0, 0>>

\* C9: without a session error, a call that has started ends if the status
\* is eventually not in-progress and the progress eventually complete, and
\* ends by raising if the status, which never changes once it has left
\* in-progress, is eventually failure; it never ends while the status stays
\* in-progress, nor while the status is not failure and the progress stays
\* below 1.0.
C9_EndsIffDeviceDoes ==
  /\ ([]~sessionFailed /\ <>[](devStatus # -1) /\ <>[](devProgress >= 10))
       => ((pc # "idle") ~> Terminated)
  /\ ([]~sessionFailed /\ []~devRegressed /\ <>(devStatus = 1))
       => ((pc # "idle") ~> (pc = "raised"))
  /\ ([]~sessionFailed /\ [](devStatus = -1)) => []~Terminated
  /\ ([]~sessionFailed /\ [](devStatus # 1 /\ devProgress < 10))
       => []~Terminated

C9_Witness ==
  /\ Observed
  /\ pc = "returned"
  /\ statusSleeps >= 1
  /\ progressSleeps >= 1

\* C10 as stated: the status that ended the wait loop decides alone: the
\* operation raises exactly when it is 1 and otherwise returns it, so it
\* never returns 1 or -1.
C10_OneStatusDecides ==
  (Observed /\ Terminated) =>
    LET ended == statusReads[LoopEnd(statusReads)]
    IN  /\ (pc = "raised") <=> (ended = 1)
        /\ (pc = "returned") => (ret = <<ended>> /\ ret \notin {<<1>>, <<-1>>})

\* C10 as amended: the status is read again for the failure test and again
\* for the return value: the operation raises exactly when the read after the
\* one that ended the wait loop is 1, and otherwise returns the read made
\* after the progress loop; it returns neither 1 nor -1 when the three reads
\* agree.
C10_ThreeReadsDecide ==
  (Observed /\ Terminated) =>
    LET e == LoopEnd(statusReads)
    IN  /\ e # 0 /\ Len(statusReads) > e
        /\ (pc = "raised") <=> (statusReads[e + 1] = 1)
        /\ (pc = "raised") => (Len(statusReads) = e + 1 /\ ret = <<>>)
        /\ (pc = "returned") =>
             /\ Len(statusReads) = e + 2
             /\ ret = <<statusReads[e + 2]>>
             /\ (statusReads[e] = statusReads[e + 1]
                 /\ statusReads[e + 1] = statusReads[e + 2])
                  => ret \notin {<<1>>, <<-1>>}

C10_Witness ==
  /\ Observed
  /\ pc = "returned"
  /\ statusReads = <<-1, 0, 0, 1>>
  /\ ret = <<1>>

\* ----------------------------- claims: the binder and upload_waveform
Readable(entry) == "Read" \in Range(entry.Properties)
Writable(entry) == "Write" \in Range(entry.Properties)

\* the schema entry a parameter name belongs to
EntryNamed(name) ==
  nodeTree[IF name = "awgs_0_waveform_index" THEN IndexNode ELSE DataNode]
NameOf(node) ==
  IF node = IndexNode THEN "awgs_0_waveform_index" ELSE "awgs_0_waveform_data"

\* the integer a key of Options stands for
IntegerKey(val) ==
  CASE val = <<"0">> -> 0 [] val = <<"1">> -> 1 [] val = <<"1", "0">> -> 10
IsIntegerKey(value, entry) ==
  value[1] = "int" /\ value[2] \in {IntegerKey(val) : val \in entry.Options}

WriteCalls == {"setInt", "setDouble", "setString", "vectorWrite"}
ReadCalls == {"getInt", "getDouble", "getString", "vectorRead"}

\* C4: a set of a writable enumerated parameter to a value that is no integer
\* key of Options fails validation with no session call, and a session call
\* is issued only for a value that is one.
C4_EnumRejectsBeforeWrite ==
  (op.fn = "set" /\ Writable(EntryNamed(op.name))
     /\ EntryNamed(op.name).Type = "Integer (enumerated)") =>
    /\ (~IsIntegerKey(op.value, EntryNamed(op.name)))
         => (raised = "validation error" /\ calls = <<>>)
    /\ (calls # <<>>) => IsIntegerKey(op.value, EntryNamed(op.name))

C4_Witness ==
  /\ op.fn = "set"
  /\ Writable(EntryNamed(op.name))
  /\ EntryNamed(op.name).Options = {<<"0">>, <<"1", "0">>}
  /\ op.value = IntValue(1)
  /\ raised = "validation error"
  /\ calls = <<>>

\* a set the validator, if any, accepted
Accepted ==
  (EntryNamed(op.name).Type = "Integer (enumerated)")
    => IsIntegerKey(op.value, EntryNamed(op.name))

OneWrite ==
  /\ Len(calls) = 1
  /\ calls[1].fn \in WriteCalls
  /\ calls[1].path = EntryNamed(op.name).Node
  /\ calls[1].value = op.value

\* C5 as stated: every accepted set of a writable parameter issues exactly
\* one write call, with the entry's path and the value.
C5_OneWritePerSet ==
  (op.fn = "set" /\ Writable(EntryNamed(op.name)) /\ Accepted) => OneWrite

\* C5 as amended: so it is for the writable entries whose declared type is
\* one of the five recognized kinds.
C5_OneWritePerRecognizedSet ==
  (op.fn = "set" /\ Writable(EntryNamed(op.name)) /\ Accepted
     /\ EntryNamed(op.name).Type \in RecognizedTypes) => OneWrite

C5_Witness ==
  /\ op.fn = "set"
  /\ Writable(EntryNamed(op.name))
  /\ EntryNamed(op.name).Type = "ZIVectorData"
  /\ op.value = Waveform
  /\ OneWrite
  /\ calls[1].fn = "vectorWrite"
  /\ raised = "none"

\* the read primitive of a declared type
ReadPrimitive(type) ==
  CASE type = "Integer (64 bit)" -> "getInt"
    [] type = "Integer (enumerated)" -> "getInt"
    [] type = "Double" -> "getDouble"
    [] type = "String" -> "getString"
    [] type = "ZIVectorData" -> "vectorRead"

\* C6: a get of a readable parameter of a recognized type issues exactly one
\* read call, of the primitive of its type and with the entry's path, and
\* returns what that call answered.
C6_OneReadPerGet ==
  (op.fn = "get" /\ Readable(EntryNamed(op.name))
     /\ EntryNamed(op.name).Type \in RecognizedTypes) =>
    /\ Len(calls) = 1
    /\ calls[1].fn = ReadPrimitive(EntryNamed(op.name).Type)
    /\ calls[1].path = EntryNamed(op.name).Node
    /\ (raised = "none") => (result = <<calls[1].reply>>)

C6_Witness ==
  /\ op.fn = "get"
  /\ Readable(EntryNamed(op.name))
  /\ EntryNamed(op.name).Type = "Integer (enumerated)"
  /\ Len(calls) = 1
  /\ calls[1].fn = "getInt"
  /\ raised = "none"
  /\ result = <<IntValue(1)>>

\* C7: once the parameters are created, each entry's parameter has a getter
\* exactly if the entry is readable and a setter exactly if it is writable; a
\* get without a getter and a set without a setter issue no session call, and
\* every read (write) call issued is on the path of a readable (writable)
\* entry.
C7_AccessFollowsPermissions ==
  (phase = "ready") =>
    /\ \A k \in DOMAIN nodeTree :
         /\ NameOf(k) \in DOMAIN parameters
         /\ (parameters[NameOf(k)].get_cmd # None) <=> Readable(nodeTree[k])
         /\ (parameters[NameOf(k)].set_cmd # None) <=> Writable(nodeTree[k])
    /\ (op.fn = "get" /\ ~Readable(EntryNamed(op.name)))
         => (calls = <<>> /\ raised = "not gettable")
    /\ (op.fn = "set" /\ ~Writable(EntryNamed(op.name)))
         => (calls = <<>> /\ raised = "not settable")
    /\ \A i \in DOMAIN calls :
         /\ (calls[i].fn \in ReadCalls) => Readable(nodeTree[calls[i].path])
         /\ (calls[i].fn \in WriteCalls) => Writable(nodeTree[calls[i].path])

C7_Witness ==
  /\ phase = "ready"
  /\ op.fn = "get"
  /\ ~Readable(EntryNamed(op.name))
  /\ Writable(EntryNamed(op.name))
  /\ raised = "not gettable"

\* the place of a session call in upload_waveform's order
Rank(call) ==
  IF call.fn = "sync" THEN 2 ELSE IF call.path = IndexNode THEN 1 ELSE 3

\* C8: upload_waveform runs the index set, the sync and the data set in this
\* order, each only after the one before it completed without an exception;
\* its session calls come in that order, the index call with index and the
\* data call with waveform, and the data call only after both the index set
\* and the sync completed.
C8_IndexSyncData ==
  (op.fn = "upload_waveform") =>
    /\ Len(steps) \in 1 .. 3
    /\ \A i \in DOMAIN steps : steps[i].line = <<"set_index", "sync", "set_data">>[i]
    /\ \A i \in 1 .. (Len(steps) - 1) : steps[i].raised = "none"
    /\ (steps[Len(steps)].raised # "none") => (uwPc = "idle")
    /\ \A i \in DOMAIN calls : \A j \in DOMAIN calls :
         (i < j) => (Rank(calls[i]) < Rank(calls[j]))
    /\ \A i \in DOMAIN calls :
         /\ (Rank(calls[i]) = 1) => (calls[i].value = op.value[2])
         /\ (Rank(calls[i]) = 2) => (Len(steps) >= 2)
         /\ (Rank(calls[i]) = 3)
              => (Len(steps) = 3 /\ calls[i].value = op.value[1]
                  /\ calls[i].fn \in WriteCalls)

C8_Witness ==
  /\ op.fn = "upload_waveform"
  /\ uwPc = "idle"
  /\ raised = "none"
  /\ Len(calls) = 3
  /\ calls[1].fn = "setInt" /\ calls[1].path = IndexNode
  /\ calls[2].fn = "sync"
  /\ calls[3].fn = "vectorWrite" /\ calls[3].path = DataNode

====
